---------------------------- MODULE Spec2Model ----------------------------
(***************************************************************************)
(* Model of the adaptive quiz core of kana-dojo: the card grids' mastery   *)
(* classification (Kanji/components/index.tsx, Vocabulary/components/      *)
(* index.tsx) and the two tile games (the kana WordBuildingGame and the    *)
(* KanjiWordBuildingGame) with the collaborators they call: the stats      *)
(* store, the global adaptive selector and the smart reverse mode hook.    *)
(***************************************************************************)
EXTENDS Integers, Sequences, FiniteSets, TLC

VARIABLES
  \* useStatsStore
  characterMastery,   \* allTimeStats.characterMastery: id -> [correct, incorrect]
  score,              \* state.score
  \* getGlobalAdaptiveSelector()
  characterWeights,   \* id -> weight, only the ids ever updated
  lastSeen,           \* ids in the order of their last presentation (latest last)
  \* useSmartReverseMode()
  internalIsReverse,
  consecutiveCorrectInDirection,
  \* the mounted game component and its props
  game,               \* "none" | "kana" | "kanji"
  mounted,
  externalIsReverse,  \* "undefined" | "true" | "false"
  kanaGroupIndices,
  wordLength,
  selectedKanjiObjs,
  externalDistractorCount,
  \* the game component's useState cells
  wordData,
  questionData,
  placedTiles,
  isChecking,
  bottomBarState,
  \* history: the evaluated answers so far, and what the last handler run did
  answers,
  lastEvent,
  owedOnCorrect,      \* the identifiers of a correct answer not yet passed to onCorrect
  \* the mounted card grid (KanjiCards or VocabCards) and the store value it reads
  page,                    \* "none" | "kanji" | "vocab"
  cardsMounted,
  selectedCollectionName,  \* selectedKanjiCollection / selectedVocabCollection
  collections,             \* kanjiCollections / vocabCollections: level -> meta
  cumulativeCounts,
  countsLoading,           \* loadCumulativeCounts() is in flight
  pendingLoads,            \* the loadSelectedCollection() runs in flight
  selects                  \* history: the level changes made so far

storeVars     == <<characterMastery, score>>
selectorVars  == <<characterWeights, lastSeen>>
directionVars == <<internalIsReverse, consecutiveCorrectInDirection>>
propVars      == <<game, externalIsReverse, kanaGroupIndices, wordLength,
                   selectedKanjiObjs, externalDistractorCount>>
gameVars      == <<mounted, wordData, questionData, placedTiles, isChecking,
                   bottomBarState>>
historyVars   == <<answers, lastEvent, owedOnCorrect>>
cardVars      == <<page, cardsMounted, selectedCollectionName, collections,
                   cumulativeCounts, countsLoading, pendingLoads, selects>>
sessionVars   == <<score, selectorVars, directionVars, propVars, gameVars,
                   historyVars>>
vars == <<storeVars, selectorVars, directionVars, propVars, gameVars, historyVars,
          cardVars>>

----------------------------------------------------------------------------
(* Bounds of the model *)

\* largest correct / incorrect counter of a ledger drawn as an input
MaxCount == 11

\* evaluated answers per game session
MaxAnswers == 6

\* level changes per visit of a card grid
MaxSelects == 2

----------------------------------------------------------------------------
(* Generic helpers *)

Range(s) == {s[i] : i \in 1..Len(s)}

Min(a, b) == IF a <= b THEN a ELSE b

Max(a, b) == IF a >= b THEN a ELSE b

\* s.filter(c => !drop.has(c))
RECURSIVE FilterOut(_, _)
FilterOut(s, drop) ==
  IF s = <<>> THEN <<>>
  ELSE (IF Head(s) \in drop THEN <<>> ELSE <<Head(s)>>) \o FilterOut(Tail(s), drop)

\* every order of the elements of s: what sort(() => random.real(0, 1) - 0.5)
\* can return, the comparator answering at random
Shuffles(s) ==
  LET n == Len(s)
      perms == {p \in [1..n -> 1..n] : \A i, j \in 1..n : i # j => p[i] # p[j]}
  IN  {[i \in 1..n |-> s[p[i]]] : p \in perms}

EmptyMap == [x \in {} |-> x]

----------------------------------------------------------------------------
(* useStatsStore: the performance ledger *)

Stat(c, i) == [correct |-> c, incorrect |-> i]

\* incrementCharacterScore(char, 'correct' | 'wrong'): lazy insertion, then one
\* of the two counters grows by one
IncrementCharacterScore(ledger, char, field) ==
  LET old == IF char \in DOMAIN ledger THEN ledger[char] ELSE Stat(0, 0)
      new == IF field = "correct"
             THEN Stat(old.correct + 1, old.incorrect)
             ELSE Stat(old.correct, old.incorrect + 1)
  IN  [x \in DOMAIN ledger \cup {char} |-> IF x = char THEN new ELSE ledger[x]]

----------------------------------------------------------------------------
(* MasteryClassifier: the masteredCharacters / masteredWords memos *)

ATTEMPT_THRESHOLD == 10

\* the literal 0.9 as the fraction 9/10
ACCURACY_NUM == 9

ACCURACY_DEN == 10

\* a plausible slip: the quotient is taken without the guard on total
AccuracyUnguarded(stats) ==
  LET total == stats.correct + stats.incorrect
  IN  <<stats.correct, total>>

\* total > 0 ? stats.correct / total : 0, kept as the exact fraction <<num, den>>.
\* The double quotient of two integers below 2^53 is the correctly rounded
\* fraction, and rounding is monotone, so comparing it with the double 0.9 agrees
\* with comparing the fractions for every total below 2^50.
Accuracy(stats) ==
  LET total == stats.correct + stats.incorrect
  IN  IF total > 0 THEN <<stats.correct, total>> ELSE <<0, 1>>

\* accuracy >= 0.9
AccuracyAtLeast(accuracy) ==
  accuracy[1] * ACCURACY_DEN >= ACCURACY_NUM * accuracy[2]

\* a plausible slip: a strict comparison of the number of attempts
KanjiIsMasteredAbove(stats) ==
  LET total == stats.correct + stats.incorrect
      accuracy == Accuracy(stats)
  IN  total > ATTEMPT_THRESHOLD /\ AccuracyAtLeast(accuracy)

\* a plausible slip: a strict comparison of the accuracy
KanjiIsMasteredStrict(stats) ==
  LET total == stats.correct + stats.incorrect
      accuracy == Accuracy(stats)
  IN  total >= ATTEMPT_THRESHOLD
      /\ accuracy[1] * ACCURACY_DEN > ACCURACY_NUM * accuracy[2]

\* Kanji/components/index.tsx: if (total >= 10 && accuracy >= 0.9)
KanjiIsMastered(stats) ==
  LET total == stats.correct + stats.incorrect
      accuracy == Accuracy(stats)
  IN  total >= ATTEMPT_THRESHOLD /\ AccuracyAtLeast(accuracy)

\* Vocabulary/components/index.tsx: if (total >= 10 && accuracy >= 0.9)
VocabIsMastered(stats) ==
  LET total == stats.correct + stats.incorrect
      accuracy == Accuracy(stats)
  IN  total >= ATTEMPT_THRESHOLD /\ AccuracyAtLeast(accuracy)

\* Object.entries(allTimeStats.characterMastery).forEach(...) of the kanji grid
MasteredCharactersOf(ledger) ==
  {char \in DOMAIN ledger : KanjiIsMastered(ledger[char])}

\* Object.entries(allTimeStats.characterMastery).forEach(...) of the vocab grid
MasteredWordsOf(ledger) ==
  {word \in DOMAIN ledger : VocabIsMastered(ledger[word])}

masteredCharacters == MasteredCharactersOf(characterMastery)

masteredWords == MasteredWordsOf(characterMastery)

----------------------------------------------------------------------------
(* The datasets the games draw from (inputs, kept small) *)

\* '@/features/Kana/data/kana': group 1 is a hiragana row, group 2 a katakana
\* row; hA (hiragana a) and kA (katakana a) share the romaji "a"
kana ==
  <<[kana |-> <<"hA", "hI">>, romanji |-> <<"a", "i">>],
    [kana |-> <<"kA">>, romanji |-> <<"a">>],
    [kana |-> <<"hU", "hE">>, romanji |-> <<"u", "e">>]>>

KanaGroupChoices == {<<>>, <<1>>}

WordLengthChoices == {1, 2}

\* IKanjiObj reduced to the fields the game reads; meaning stands for meanings[0]
KanjiObj(char, meaning) == [kanjiChar |-> char, meaning |-> meaning]

KanjiPoolChoices ==
  {<<>>,
   <<KanjiObj("K1", "m1")>>,
   <<KanjiObj("K1", "m1"), KanjiObj("K2", "m2")>>}

DistractorCountChoices == {1, 3}

----------------------------------------------------------------------------
(* getGlobalAdaptiveSelector(): the weight table (shared/lib/adaptiveSelection) *)

\* weights are counted in eighths, so that the neutral weight 1.0 is 8
W_MIN == 1

W_MAX == 64

NEUTRAL_WEIGHT == 8

BOOST_FACTOR == 2

DECAY_DIVISOR == 2

\* the accessor with the neutral default for unseen ids
Weight(weights, id) ==
  IF id \in DOMAIN weights THEN weights[id] ELSE NEUTRAL_WEIGHT

\* a plausible slip: the result is not clamped
NextWeightUnclamped(w, wasCorrect) ==
  IF wasCorrect THEN w \div DECAY_DIVISOR ELSE w * BOOST_FACTOR

\* a plausible slip: the floor of the decay is 0
NextWeightFlooredAtZero(w, wasCorrect) ==
  IF wasCorrect
  THEN Max(0, w \div DECAY_DIVISOR)
  ELSE Min(W_MAX, w * BOOST_FACTOR)

\* the weight after one outcome: decay on correct, boost on wrong, clamped
NextWeight(w, wasCorrect) ==
  IF wasCorrect
  THEN Max(W_MIN, w \div DECAY_DIVISOR)
  ELSE Min(W_MAX, w * BOOST_FACTOR)

\* updateCharacterWeight(id, wasCorrect)
UpdateCharacterWeight(weights, id, wasCorrect) ==
  [x \in DOMAIN weights \cup {id} |->
     IF x = id THEN NextWeight(Weight(weights, id), wasCorrect) ELSE weights[x]]

RECURSIVE TotalWeight(_, _)
TotalWeight(weights, candidates) ==
  IF candidates = <<>> THEN 0
  ELSE Weight(weights, Head(candidates)) + TotalWeight(weights, Tail(candidates))

\* selectWeightedCharacter(candidates): the identifiers the draw can return, each
\* candidate having probability weight / total (uniform when the total is 0).
\* An empty candidate list has no result (InvalidArgument).
SelectWeightedCharacter(weights, candidates) ==
  IF TotalWeight(weights, candidates) = 0
  THEN Range(candidates)
  ELSE {c \in Range(candidates) : Weight(weights, c) > 0}

\* what a call of selectWeightedCharacter ends with: one of the identifiers above,
\* or the InvalidArgument condition for an empty candidate list
InvalidArgument == "InvalidArgument"

SelectOutcomes(weights, candidates) ==
  IF candidates = <<>>
  THEN {InvalidArgument}
  ELSE SelectWeightedCharacter(weights, candidates)

\* markCharacterSeen(id): id becomes the most recently seen
MarkCharacterSeen(seen, id) == FilterOut(seen, {id}) \o <<id>>

----------------------------------------------------------------------------
(* useSmartReverseMode(): the direction controller (shared/hooks) *)

FLIP_STREAK == 3

StreakState(isRev, streak) == [isReverse |-> isRev, streak |-> streak]

\* decideNextMode(): one more consecutive correct answer in this direction
DecideNextMode(st) ==
  IF st.streak + 1 >= FLIP_STREAK
  THEN StreakState(~st.isReverse, 0)
  ELSE StreakState(st.isReverse, st.streak + 1)

\* recordWrongAnswer()
RecordWrongAnswer(st) == StreakState(st.isReverse, 0)

----------------------------------------------------------------------------
(* What both games share *)

\* const isReverse = externalIsReverse ?? internalIsReverse
IsReverseOf(external, internal) ==
  IF external = "undefined" THEN internal ELSE external = "true"

isReverse == IsReverseOf(externalIsReverse, internalIsReverse)

streakState == StreakState(internalIsReverse, consecutiveCorrectInDirection)

\* Array.prototype.slice(0, n)
SliceTo(s, n) ==
  IF n < 0 THEN SubSeq(s, 1, Max(Len(s) + n, 0)) ELSE SubSeq(s, 1, Min(n, Len(s)))

\* a call of a collaborator made by a handler
Call(fn, id, arg) == [fn |-> fn, id |-> id, arg |-> arg]

\* one call of selectWeightedCharacter: the candidates passed and the result
Draw(candidates, selected) == [candidates |-> candidates, selected |-> selected]

\* what a handler run did: the calls of the collaborators in order, and the draw
\* batches (one per generateWord / generateQuestion call) it made
DrawEvent(handler, calls, batches) ==
  [handler |-> handler, calls |-> calls, batches |-> batches]

Event(handler, calls) == DrawEvent(handler, calls, <<>>)

\* speedStopwatch.totalMilliseconds when Check is pressed: a quick and a slow
\* answer
AnswerTimes == {800, 12000}

\* handleCheck: addCorrectAnswerTime(answerTimeMs / 1000) and
\* recordAnswerTime(answerTimeMs), on a correct answer only; the seconds are kept
\* as the exact quotient <<ms, 1000>>
AnswerTimeCalls(isCorrect, answerTimeMs) ==
  IF isCorrect
  THEN <<Call("addCorrectAnswerTime", "", <<answerTimeMs, 1000>>),
         Call("recordAnswerTime", "", answerTimeMs)>>
  ELSE <<>>

\* a plausible slip: the score is decremented without the test
ScoreAfterWrongUnguarded(s) == s - 1

\* if (score - 1 >= 0) setScore(score - 1)
ScoreAfterWrong(s) == IF s - 1 >= 0 THEN s - 1 ELSE s

\* handleTileClick's toggle of the placed list
ToggleTile(placed, char) ==
  IF char \in Range(placed) THEN FilterOut(placed, {char}) ELSE Append(placed, char)

----------------------------------------------------------------------------
(* KanjiWordBuildingGame *)

EmptyQuestion ==
  [kanjiChar |-> "", correctAnswer |-> "", allTiles |-> <<>>,
   displayChar |-> "undefined"]

\* const distractorCount = Math.min(externalDistractorCount, selectedKanjiObjs.length - 1)
distractorCount == Min(externalDistractorCount, Len(selectedKanjiObjs) - 1)

\* a plausible slip: the candidates are the kanji of the whole level, not those
\* of the selected objects
KanjiCharsOfLevel(pool) == <<"K1", "K2", "K9">>

\* selectedKanjiObjs.map(obj => obj.kanjiChar)
KanjiChars(pool) == [i \in 1..Len(pool) |-> pool[i].kanjiChar]

\* kanjiObjMap.has / kanjiObjMap.get: the last object of the pool with that char
KanjiObjMapHas(pool, char) == \E i \in 1..Len(pool) : pool[i].kanjiChar = char

KanjiObjMapGet(pool, char) ==
  LET last == CHOOSE i \in 1..Len(pool) :
                /\ pool[i].kanjiChar = char
                /\ \A j \in 1..Len(pool) : pool[j].kanjiChar = char => j <= i
  IN  pool[last]

\* the objects of the pool other than the selected kanji, as tiles
KanjiDistractorSource(pool, selectedKanji, rev) ==
  LET others == SelectSeq(pool, LAMBDA obj : obj.kanjiChar # selectedKanji)
  IN  [i \in 1..Len(others) |->
         IF rev THEN others[i].kanjiChar ELSE others[i].meaning]

\* the question built once the selector has returned selectedKanji
KanjiQuestionsFor(pool, selectedKanji, rev, nDistractors) ==
  IF ~KanjiObjMapHas(pool, selectedKanji)
  THEN {EmptyQuestion}
  ELSE LET selectedKanjiObj == KanjiObjMapGet(pool, selectedKanji)
           correctAnswer == IF rev THEN selectedKanji ELSE selectedKanjiObj.meaning
           source == KanjiDistractorSource(pool, selectedKanji, rev)
       IN  {[kanjiChar |-> selectedKanji,
             correctAnswer |-> correctAnswer,
             allTiles |-> tiles,
             displayChar |-> IF rev THEN selectedKanjiObj.meaning ELSE selectedKanji]
            : tiles \in UNION {Shuffles(<<correctAnswer>> \o SliceTo(sorted, nDistractors))
                               : sorted \in Shuffles(source)}}

\* a plausible slip: the guard on the empty pool is missing
GenerateQuestionUnguarded(pool, rev, nDistractors, weights, seen) ==
  LET kanjiChars == KanjiChars(pool)
  IN  UNION {
        IF selectedKanji = InvalidArgument
        THEN {[q |-> EmptyQuestion, seen |-> seen,
               batch |-> <<Draw(kanjiChars, InvalidArgument)>>]}
        ELSE {[q |-> q, seen |-> MarkCharacterSeen(seen, selectedKanji),
               batch |-> <<Draw(kanjiChars, selectedKanji)>>]
              : q \in KanjiQuestionsFor(pool, selectedKanji, rev, nDistractors)}
        : selectedKanji \in SelectOutcomes(weights, kanjiChars)}

\* generateQuestion(): every result it can return, with the selector's recency
\* list after it
GenerateQuestion(pool, rev, nDistractors, weights, seen) ==
  IF Len(pool) = 0
  THEN {[q |-> EmptyQuestion, seen |-> seen, batch |-> <<>>]}
  ELSE LET kanjiChars == KanjiChars(pool)
       IN  UNION {
             IF selectedKanji = InvalidArgument
             THEN {[q |-> EmptyQuestion, seen |-> seen,
                    batch |-> <<Draw(kanjiChars, InvalidArgument)>>]}
             ELSE {[q |-> q, seen |-> MarkCharacterSeen(seen, selectedKanji),
                    batch |-> <<Draw(kanjiChars, selectedKanji)>>]
                   : q \in KanjiQuestionsFor(pool, selectedKanji, rev, nDistractors)}
             : selectedKanji \in SelectOutcomes(weights, kanjiChars)}

\* if (selectedKanjiObjs.length < 2 || !questionData.kanjiChar) return null
KanjiRendered ==
  /\ game = "kanji"
  /\ mounted
  /\ ~(Len(selectedKanjiObjs) < 2 \/ questionData.kanjiChar = "")

\* resetGame() with the direction rev, in the handler that made these calls
KanjiResetGame(rev, handler, calls) ==
  \E r \in GenerateQuestion(selectedKanjiObjs, rev, distractorCount,
                            characterWeights, lastSeen) :
    /\ questionData' = r.q
    /\ lastSeen' = r.seen
    /\ placedTiles' = <<>>
    /\ isChecking' = FALSE
    /\ bottomBarState' = "check"
    /\ lastEvent' = DrawEvent(handler, calls, <<r.batch>>)

\* the first render: useState(() => generateQuestion()), then the mount effect
\* runs resetGame(); of the first question only the selector's part stays
KanjiMount ==
  /\ game = "kanji"
  /\ ~mounted
  /\ mounted' = TRUE
  /\ \E first \in {[seen |-> f.seen, batch |-> f.batch]
                    : f \in GenerateQuestion(selectedKanjiObjs, isReverse,
                                             distractorCount, characterWeights,
                                             lastSeen)} :
       \E r \in GenerateQuestion(selectedKanjiObjs, isReverse, distractorCount,
                                 characterWeights, first.seen) :
         /\ questionData' = r.q
         /\ lastSeen' = r.seen
         /\ lastEvent' = DrawEvent("mount", <<>>, <<first.batch, r.batch>>)
  /\ placedTiles' = <<>>
  /\ isChecking' = FALSE
  /\ bottomBarState' = "check"
  /\ UNCHANGED <<cardVars, storeVars, characterWeights, directionVars, propVars, wordData,
                 answers, owedOnCorrect>>

\* the collaborators' state: the ledger, the weight table, the streak state
Collab(ledger, weights, st) == [ledger |-> ledger, weights |-> weights, st |-> st]

\* one call of a handler, carried out by the collaborator it addresses
ApplyCall(c, call) ==
  CASE call.fn = "incrementCharacterScore" ->
         [c EXCEPT !.ledger = IncrementCharacterScore(@, call.id, call.arg)]
    [] call.fn = "updateCharacterWeight" ->
         [c EXCEPT !.weights = UpdateCharacterWeight(@, call.id, call.arg = "true")]
    [] call.fn = "decideNextMode" -> [c EXCEPT !.st = DecideNextMode(@)]
    [] call.fn = "recordWrongAnswer" -> [c EXCEPT !.st = RecordWrongAnswer(@)]
    [] OTHER -> c

RECURSIVE ApplyCalls(_, _)
ApplyCalls(c, calls) ==
  IF calls = <<>> THEN c ELSE ApplyCalls(ApplyCall(c, Head(calls)), Tail(calls))

\* a plausible slip: the outcome reported to the selector is inverted
KanjiOutcomeCallsInverted(char, isCorrect) ==
  IF isCorrect
  THEN <<Call("incrementCharacterScore", char, "correct"),
         Call("updateCharacterWeight", char, "false")>>
  ELSE <<Call("incrementCharacterScore", char, "wrong"),
         Call("updateCharacterWeight", char, "true")>>

\* a plausible slip: a wrong answer reaches the selector but not the ledger
KanjiOutcomeCallsWeightOnly(char, isCorrect) ==
  IF isCorrect
  THEN <<Call("incrementCharacterScore", char, "correct"),
         Call("updateCharacterWeight", char, "true")>>
  ELSE <<Call("updateCharacterWeight", char, "false")>>

\* handleCheck: the outcome reported to the ledger and to the selector
KanjiOutcomeCalls(char, isCorrect) ==
  IF isCorrect
  THEN <<Call("incrementCharacterScore", char, "correct"),
         Call("updateCharacterWeight", char, "true")>>
  ELSE <<Call("incrementCharacterScore", char, "wrong"),
         Call("updateCharacterWeight", char, "false")>>

\* a plausible slip: a correct answer does not advance the controller
KanjiDirectionCallsNoAdvance(isCorrect, external) ==
  IF external = "undefined" /\ ~isCorrect
  THEN <<Call("recordWrongAnswer", "", "")>>
  ELSE <<>>

\* a plausible slip: a wrong answer advances the controller too
KanjiDirectionCallsWrongAdvances(isCorrect, external) ==
  IF external = "undefined" THEN <<Call("decideNextMode", "", "")>> ELSE <<>>

\* a plausible slip: the controller runs although the direction is fixed
KanjiDirectionCallsUnguarded(isCorrect, external) ==
  IF isCorrect
  THEN <<Call("decideNextMode", "", "")>>
  ELSE <<Call("recordWrongAnswer", "", "")>>

\* handleCheck: if (externalIsReverse === undefined) decideNextReverseMode() /
\* recordReverseModeWrong()
KanjiDirectionCalls(isCorrect, external) ==
  IF external = "undefined"
  THEN IF isCorrect
       THEN <<Call("decideNextMode", "", "")>>
       ELSE <<Call("recordWrongAnswer", "", "")>>
  ELSE <<>>

\* placedTiles.length === 1 && placedTiles[0] === questionData.correctAnswer
KanjiIsCorrect(placed, q) == Len(placed) = 1 /\ placed[1] = q.correctAnswer

\* a plausible slip: a slow correct answer is not reported to the selector
KanjiCheckCallsTimed(char, isCorrect, external, answerTimeMs) ==
  AnswerTimeCalls(isCorrect, answerTimeMs)
  \o (IF isCorrect /\ answerTimeMs > 10000
      THEN <<Call("incrementCharacterScore", char, "correct")>>
      ELSE KanjiOutcomeCalls(char, isCorrect))
  \o KanjiDirectionCalls(isCorrect, external)
  \o (IF isCorrect THEN <<>> ELSE <<Call("onWrong", "", "")>>)

\* handleCheck: the calls of the collaborators, in the order of the code
KanjiCheckCalls(char, isCorrect, external, answerTimeMs) ==
  AnswerTimeCalls(isCorrect, answerTimeMs)
  \o KanjiOutcomeCalls(char, isCorrect)
  \o KanjiDirectionCalls(isCorrect, external)
  \o (IF isCorrect THEN <<>> ELSE <<Call("onWrong", "", "")>>)

\* a plausible slip: no early return when no tile is placed
KanjiHandleCheckUnguarded ==
  /\ KanjiRendered
  /\ bottomBarState = "check"
  /\ answers < MaxAnswers
  /\ \E answerTimeMs \in AnswerTimes :
       LET isCorrect == KanjiIsCorrect(placedTiles, questionData)
           calls == KanjiCheckCalls(questionData.kanjiChar, isCorrect,
                                    externalIsReverse, answerTimeMs)
           after == ApplyCalls(Collab(characterMastery, characterWeights,
                                      streakState), calls)
           nextReverse == IsReverseOf(externalIsReverse, after.st.isReverse)
       IN  /\ characterMastery' = after.ledger
           /\ characterWeights' = after.weights
           /\ internalIsReverse' = after.st.isReverse
           /\ consecutiveCorrectInDirection' = after.st.streak
           /\ score' = IF isCorrect THEN score + 1 ELSE ScoreAfterWrong(score)
           /\ answers' = answers + 1
           /\ owedOnCorrect' = IF isCorrect THEN <<questionData.kanjiChar>>
                               ELSE owedOnCorrect
           /\ IF nextReverse # isReverse
              THEN \E r \in GenerateQuestion(selectedKanjiObjs, nextReverse,
                              distractorCount, after.weights, lastSeen) :
                     /\ questionData' = r.q
                     /\ lastSeen' = r.seen
                     /\ placedTiles' = <<>>
                     /\ isChecking' = FALSE
                     /\ bottomBarState' = "check"
                     /\ lastEvent' = DrawEvent("check", calls, <<r.batch>>)
              ELSE /\ isChecking' = TRUE
                   /\ bottomBarState' = IF isCorrect THEN "correct" ELSE "wrong"
                   /\ lastEvent' = Event("check", calls)
                   /\ UNCHANGED <<questionData, placedTiles, lastSeen>>
           /\ UNCHANGED <<cardVars, propVars, mounted, wordData>>

\* handleCheck
KanjiHandleCheck ==
  /\ KanjiRendered
  /\ bottomBarState = "check"
  /\ IF Len(placedTiles) = 0
     THEN /\ lastEvent' = Event("check", <<>>)
          /\ UNCHANGED <<cardVars, storeVars, selectorVars, directionVars, propVars,
                         gameVars, answers, owedOnCorrect>>
     ELSE /\ answers < MaxAnswers
          /\ \E answerTimeMs \in AnswerTimes :
             LET isCorrect == KanjiIsCorrect(placedTiles, questionData)
                 calls == KanjiCheckCalls(questionData.kanjiChar, isCorrect,
                                          externalIsReverse, answerTimeMs)
                 after == ApplyCalls(Collab(characterMastery, characterWeights,
                                            streakState), calls)
                 nextReverse == IsReverseOf(externalIsReverse, after.st.isReverse)
             IN  /\ characterMastery' = after.ledger
                 /\ characterWeights' = after.weights
                 /\ internalIsReverse' = after.st.isReverse
                 /\ consecutiveCorrectInDirection' = after.st.streak
                 /\ score' = IF isCorrect THEN score + 1 ELSE ScoreAfterWrong(score)
                 /\ answers' = answers + 1
                 /\ owedOnCorrect' = IF isCorrect THEN <<questionData.kanjiChar>>
                                     ELSE owedOnCorrect
                 /\ IF nextReverse # isReverse
                    THEN \* the effect on [isReverse, resetGame] runs resetGame()
                         \E r \in GenerateQuestion(selectedKanjiObjs, nextReverse,
                                    distractorCount, after.weights, lastSeen) :
                           /\ questionData' = r.q
                           /\ lastSeen' = r.seen
                           /\ placedTiles' = <<>>
                           /\ isChecking' = FALSE
                           /\ bottomBarState' = "check"
                           /\ lastEvent' = DrawEvent("check", calls, <<r.batch>>)
                    ELSE /\ isChecking' = TRUE
                         /\ bottomBarState' = IF isCorrect THEN "correct" ELSE "wrong"
                         /\ lastEvent' = Event("check", calls)
                         /\ UNCHANGED <<questionData, placedTiles, lastSeen>>
                 /\ UNCHANGED <<cardVars, propVars, mounted, wordData>>

\* a plausible slip: presenting the next question is reported to the selector as
\* an outcome of it
KanjiHandleContinueReporting ==
  /\ KanjiRendered
  /\ bottomBarState = "correct"
  /\ KanjiResetGame(isReverse, "continue",
                    <<Call("onCorrect", "", <<questionData.kanjiChar>>)>>)
  /\ owedOnCorrect' = <<>>
  /\ characterWeights'
       = UpdateCharacterWeight(characterWeights, questionData'.kanjiChar, FALSE)
  /\ UNCHANGED <<cardVars, storeVars, directionVars, propVars, mounted,
                 wordData, answers>>

\* handleContinue
KanjiHandleContinue ==
  /\ KanjiRendered
  /\ bottomBarState = "correct"
  /\ KanjiResetGame(isReverse, "continue",
                    <<Call("onCorrect", "", <<questionData.kanjiChar>>)>>)
  /\ owedOnCorrect' = <<>>
  /\ UNCHANGED <<cardVars, storeVars, characterWeights, directionVars, propVars, mounted,
                 wordData, answers>>

\* a plausible slip: Try Again presents a new question
KanjiHandleTryAgainRegenerating ==
  /\ KanjiRendered
  /\ bottomBarState = "wrong"
  /\ KanjiResetGame(isReverse, "tryAgain", <<>>)
  /\ UNCHANGED <<cardVars, storeVars, characterWeights, directionVars, propVars, mounted,
                 wordData, answers, owedOnCorrect>>

\* handleTryAgain
KanjiHandleTryAgain ==
  /\ KanjiRendered
  /\ bottomBarState = "wrong"
  /\ placedTiles' = <<>>
  /\ isChecking' = FALSE
  /\ bottomBarState' = "check"
  /\ lastEvent' = Event("tryAgain", <<>>)
  /\ UNCHANGED <<cardVars, storeVars, selectorVars, directionVars, propVars, mounted,
                 wordData, questionData, answers, owedOnCorrect>>

\* handleTileClick(char), for a tile on screen
KanjiHandleTileClick ==
  /\ KanjiRendered
  /\ \E char \in Range(questionData.allTiles) :
       /\ ~(isChecking /\ bottomBarState # "wrong")
       /\ isChecking' = IF bottomBarState = "wrong" THEN FALSE ELSE isChecking
       /\ bottomBarState' = IF bottomBarState = "wrong" THEN "check" ELSE bottomBarState
       /\ placedTiles' = ToggleTile(placedTiles, char)
  /\ lastEvent' = Event("tile", <<>>)
  /\ UNCHANGED <<cardVars, storeVars, selectorVars, directionVars, propVars, mounted,
                 wordData, questionData, answers, owedOnCorrect>>

----------------------------------------------------------------------------
(* WordBuildingGame (kana) *)

KANA_DISTRACTORS == 3

\* kanaGroupIndices.map(i => kana[i].kana).flat()
RECURSIVE SelectedKanaOf(_)
SelectedKanaOf(indices) ==
  IF indices = <<>> THEN <<>>
  ELSE kana[Head(indices)].kana \o SelectedKanaOf(Tail(indices))

\* kanaGroupIndices.map(i => kana[i].romanji).flat()
RECURSIVE SelectedRomajiOf(_)
SelectedRomajiOf(indices) ==
  IF indices = <<>> THEN <<>>
  ELSE kana[Head(indices)].romanji \o SelectedRomajiOf(Tail(indices))

selectedKana == SelectedKanaOf(kanaGroupIndices)

selectedRomaji == SelectedRomajiOf(kanaGroupIndices)

\* the Record filled by keys.forEach((k, i) => { map[k] = vals[i] }): the last
\* assignment to a key stays
LastAssigned(keys, vals, key) ==
  LET last == CHOOSE i \in 1..Len(keys) :
                /\ keys[i] = key
                /\ \A j \in 1..Len(keys) : keys[j] = key => j <= i
  IN  vals[last]

kanaToRomaji(k) == LastAssigned(selectedKana, selectedRomaji, k)

romajiToKana(r) == LastAssigned(selectedRomaji, selectedKana, r)

EmptyWord == [wordChars |-> <<>>, answerChars |-> <<>>, allTiles |-> <<>>]

\* a plausible slip: the candidates are not filtered by the characters drawn
RECURSIVE DrawWordNoFilter(_, _, _, _, _)
DrawWordNoFilter(sourceChars, n, weights, seen, drawn) ==
  LET wordChars == [k \in 1..Len(drawn) |-> drawn[k].selected]
      available == sourceChars
  IN  IF n <= 0 \/ Len(available) = 0
      THEN {[wordChars |-> wordChars, seen |-> seen, batch |-> drawn]}
      ELSE UNION {
             IF selected = InvalidArgument
             THEN {[wordChars |-> <<>>, seen |-> seen,
                    batch |-> Append(drawn, Draw(available, InvalidArgument))]}
             ELSE DrawWordNoFilter(sourceChars, n - 1, weights,
                                   MarkCharacterSeen(seen, selected),
                                   Append(drawn, Draw(available, selected)))
             : selected \in SelectOutcomes(weights, available)}

\* the loop that draws the word, n rounds to go: every outcome it can end with,
\* the word, the recency list and the draws made
RECURSIVE DrawWord(_, _, _, _, _)
DrawWord(sourceChars, n, weights, seen, drawn) ==
  LET wordChars == [k \in 1..Len(drawn) |-> drawn[k].selected]
      available == FilterOut(sourceChars, Range(wordChars))
  IN  IF n <= 0 \/ Len(available) = 0
      THEN {[wordChars |-> wordChars, seen |-> seen, batch |-> drawn]}
      ELSE UNION {
             IF selected = InvalidArgument
             THEN {[wordChars |-> <<>>, seen |-> seen,
                    batch |-> Append(drawn, Draw(available, InvalidArgument))]}
             ELSE DrawWord(sourceChars, n - 1, weights,
                           MarkCharacterSeen(seen, selected),
                           Append(drawn, Draw(available, selected)))
             : selected \in SelectOutcomes(weights, available)}

\* the loop that draws the distractors
RECURSIVE DrawDistractors(_, _, _, _)
DrawDistractors(distractorSource, usedAnswers, n, distractors) ==
  LET available == FilterOut(distractorSource, usedAnswers \cup Range(distractors))
  IN  IF n <= 0 \/ Len(available) = 0
      THEN {distractors}
      ELSE UNION {DrawDistractors(distractorSource, usedAnswers, n - 1,
                                  Append(distractors, available[k]))
                  : k \in 1..Len(available)}

\* generateWord(): every result it can return, with the selector's recency list
GenerateWord(rev, n, weights, seen) ==
  LET sourceChars == IF rev THEN selectedRomaji ELSE selectedKana
  IN  IF Len(sourceChars) < n
      THEN {[w |-> EmptyWord, seen |-> seen, batch |-> <<>>]}
      ELSE UNION {
             LET answerChars ==
                   [i \in 1..Len(d.wordChars) |->
                      IF rev THEN romajiToKana(d.wordChars[i])
                      ELSE kanaToRomaji(d.wordChars[i])]
                 nDistractors == Min(KANA_DISTRACTORS, Len(sourceChars) - n)
                 distractorSource == IF rev THEN selectedKana ELSE selectedRomaji
             IN  {[w |-> [wordChars |-> d.wordChars, answerChars |-> answerChars,
                          allTiles |-> tiles],
                   seen |-> d.seen,
                   batch |-> d.batch]
                  : tiles \in UNION {Shuffles(answerChars \o distractors)
                                     : distractors \in
                                         DrawDistractors(distractorSource,
                                                         Range(answerChars),
                                                         nDistractors, <<>>)}}
             : d \in DrawWord(sourceChars, n, weights, seen, <<>>)}

\* if (selectedKana.length < wordLength || wordData.wordChars.length === 0) return null
KanaRendered ==
  /\ game = "kana"
  /\ mounted
  /\ ~(Len(selectedKana) < wordLength \/ Len(wordData.wordChars) = 0)

\* resetGame() with the direction rev, in the handler that made these calls
KanaResetGame(rev, handler, calls) ==
  \E r \in GenerateWord(rev, wordLength, characterWeights, lastSeen) :
    /\ wordData' = r.w
    /\ lastSeen' = r.seen
    /\ placedTiles' = <<>>
    /\ isChecking' = FALSE
    /\ bottomBarState' = "check"
    /\ lastEvent' = DrawEvent(handler, calls, <<r.batch>>)

\* the first render: useState(() => generateWord()), then the mount effect runs
\* resetGame(); of the first word only the selector's part stays
KanaMount ==
  /\ game = "kana"
  /\ ~mounted
  /\ mounted' = TRUE
  /\ \E first \in {[seen |-> f.seen, batch |-> f.batch]
                    : f \in GenerateWord(isReverse, wordLength, characterWeights,
                                         lastSeen)} :
       \E r \in GenerateWord(isReverse, wordLength, characterWeights, first.seen) :
         /\ wordData' = r.w
         /\ lastSeen' = r.seen
         /\ lastEvent' = DrawEvent("mount", <<>>, <<first.batch, r.batch>>)
  /\ placedTiles' = <<>>
  /\ isChecking' = FALSE
  /\ bottomBarState' = "check"
  /\ UNCHANGED <<cardVars, storeVars, characterWeights, directionVars, propVars,
                 questionData, answers, owedOnCorrect>>

\* a plausible slip: only the first character of the word is reported
KanaOutcomeCallsFirstOnly(wordChars, isCorrect) ==
  IF wordChars = <<>> THEN <<>>
  ELSE <<Call("incrementCharacterScore", Head(wordChars),
              IF isCorrect THEN "correct" ELSE "wrong"),
         Call("updateCharacterWeight", Head(wordChars),
              IF isCorrect THEN "true" ELSE "false")>>

\* wordData.wordChars.forEach(char => { incrementCharacterScore(char, ...);
\* adaptiveSelector.updateCharacterWeight(char, ...) })
RECURSIVE KanaOutcomeCalls(_, _)
KanaOutcomeCalls(wordChars, isCorrect) ==
  IF wordChars = <<>> THEN <<>>
  ELSE <<Call("incrementCharacterScore", Head(wordChars),
              IF isCorrect THEN "correct" ELSE "wrong"),
         Call("updateCharacterWeight", Head(wordChars),
              IF isCorrect THEN "true" ELSE "false")>>
       \o KanaOutcomeCalls(Tail(wordChars), isCorrect)

\* handleCheck: if (externalIsReverse === undefined) decideNextReverseMode() /
\* recordReverseModeWrong()
KanaDirectionCalls(isCorrect, external) ==
  IF external = "undefined"
  THEN IF isCorrect
       THEN <<Call("decideNextMode", "", "")>>
       ELSE <<Call("recordWrongAnswer", "", "")>>
  ELSE <<>>

\* a plausible slip: the lengths are not compared
KanaIsCorrectPrefix(placed, w) ==
  \A i \in 1..Len(placed) :
    i <= Len(w.answerChars) /\ placed[i] = w.answerChars[i]

\* placedTiles.length === wordData.answerChars.length &&
\* placedTiles.every((tile, i) => tile === wordData.answerChars[i])
KanaIsCorrect(placed, w) ==
  /\ Len(placed) = Len(w.answerChars)
  /\ \A i \in 1..Len(placed) : placed[i] = w.answerChars[i]

\* handleCheck: the calls of the collaborators, in the order of the code
KanaCheckCalls(wordChars, isCorrect, external, answerTimeMs) ==
  AnswerTimeCalls(isCorrect, answerTimeMs)
  \o KanaOutcomeCalls(wordChars, isCorrect)
  \o KanaDirectionCalls(isCorrect, external)
  \o (IF isCorrect THEN <<>> ELSE <<Call("onWrong", "", "")>>)

\* handleCheck
KanaHandleCheck ==
  /\ KanaRendered
  /\ bottomBarState = "check"
  /\ IF Len(placedTiles) = 0
     THEN /\ lastEvent' = Event("check", <<>>)
          /\ UNCHANGED <<cardVars, storeVars, selectorVars, directionVars, propVars,
                         gameVars, answers, owedOnCorrect>>
     ELSE /\ answers < MaxAnswers
          /\ \E answerTimeMs \in AnswerTimes :
             LET isCorrect == KanaIsCorrect(placedTiles, wordData)
                 calls == KanaCheckCalls(wordData.wordChars, isCorrect,
                                         externalIsReverse, answerTimeMs)
                 after == ApplyCalls(Collab(characterMastery, characterWeights,
                                            streakState), calls)
                 nextReverse == IsReverseOf(externalIsReverse, after.st.isReverse)
             IN  /\ characterMastery' = after.ledger
                 /\ characterWeights' = after.weights
                 /\ internalIsReverse' = after.st.isReverse
                 /\ consecutiveCorrectInDirection' = after.st.streak
                 /\ score' = IF isCorrect
                             THEN score + Len(wordData.wordChars)
                             ELSE ScoreAfterWrong(score)
                 /\ answers' = answers + 1
                 /\ owedOnCorrect' = IF isCorrect THEN wordData.wordChars
                                     ELSE owedOnCorrect
                 /\ IF nextReverse # isReverse
                    THEN \* the effect on [isReverse, wordLength, resetGame] runs
                         \* resetGame()
                         \E r \in GenerateWord(nextReverse, wordLength,
                                               after.weights, lastSeen) :
                           /\ wordData' = r.w
                           /\ lastSeen' = r.seen
                           /\ placedTiles' = <<>>
                           /\ isChecking' = FALSE
                           /\ bottomBarState' = "check"
                           /\ lastEvent' = DrawEvent("check", calls, <<r.batch>>)
                    ELSE /\ isChecking' = TRUE
                         /\ bottomBarState' = IF isCorrect THEN "correct" ELSE "wrong"
                         /\ lastEvent' = Event("check", calls)
                         /\ UNCHANGED <<wordData, placedTiles, lastSeen>>
                 /\ UNCHANGED <<cardVars, propVars, mounted, questionData>>

\* handleContinue
KanaHandleContinue ==
  /\ KanaRendered
  /\ bottomBarState = "correct"
  /\ KanaResetGame(isReverse, "continue",
                   <<Call("onCorrect", "", wordData.wordChars)>>)
  /\ owedOnCorrect' = <<>>
  /\ UNCHANGED <<cardVars, storeVars, characterWeights, directionVars, propVars, mounted,
                 questionData, answers>>

\* handleTryAgain
KanaHandleTryAgain ==
  /\ KanaRendered
  /\ bottomBarState = "wrong"
  /\ placedTiles' = <<>>
  /\ isChecking' = FALSE
  /\ bottomBarState' = "check"
  /\ lastEvent' = Event("tryAgain", <<>>)
  /\ UNCHANGED <<cardVars, storeVars, selectorVars, directionVars, propVars, mounted,
                 wordData, questionData, answers, owedOnCorrect>>

\* handleTileClick(char), for a tile on screen
KanaHandleTileClick ==
  /\ KanaRendered
  /\ \E char \in Range(wordData.allTiles) :
       /\ ~(isChecking /\ bottomBarState # "wrong")
       /\ isChecking' = IF bottomBarState = "wrong" THEN FALSE ELSE isChecking
       /\ bottomBarState' = IF bottomBarState = "wrong" THEN "check" ELSE bottomBarState
       /\ placedTiles' = ToggleTile(placedTiles, char)
  /\ lastEvent' = Event("tile", <<>>)
  /\ UNCHANGED <<cardVars, storeVars, selectorVars, directionVars, propVars, mounted,
                 wordData, questionData, answers, owedOnCorrect>>

\* handleClearPlaced
KanaHandleClearPlaced ==
  /\ KanaRendered
  /\ ~isChecking
  /\ placedTiles' = <<>>
  /\ lastEvent' = Event("clear", <<>>)
  /\ UNCHANGED <<cardVars, storeVars, selectorVars, directionVars, propVars, mounted,
                 wordData, questionData, isChecking, bottomBarState, answers, owedOnCorrect>>

----------------------------------------------------------------------------
(* KanjiCards / VocabCards: the card grids *)

levelOrder == <<"n5", "n4", "n3", "n2", "n1">>

KANJI_PER_SET == 10

WORDS_PER_SET == 10

\* kanjiDataService.getKanjiByLevel(level): the kanjiChar of each object
KanjiByLevel(level) ==
  CASE level = "n5" -> <<"c01", "c02", "c03", "c04", "c05", "c06", "c07", "c08",
                         "c09", "c10", "c11">>
    [] level = "n4" -> <<"c12">>
    [] level = "n2" -> <<"c13", "c14">>
    [] OTHER -> <<>>

\* vocabDataService.getVocabByLevel(level): the word of each entry
VocabByLevel(level) ==
  CASE level = "n5" -> <<"w01", "w02", "w03", "w04", "w05", "w06", "w07", "w08",
                         "w09", "w10">>
    [] level = "n4" -> <<"w11", "w12">>
    [] level = "n3" -> <<"w13">>
    [] OTHER -> <<>>

DataByLevel(pg, level) ==
  IF pg = "kanji" THEN KanjiByLevel(level) ELSE VocabByLevel(level)

\* Math.ceil(n / d)
CeilDiv(n, d) == (n + d - 1) \div d

\* loadCumulativeCounts(): counts[level] is the number of sets of the levels
\* before it
RECURSIVE CumulativeBefore(_, _)
CumulativeBefore(pg, k) ==
  IF k <= 1 THEN 0
  ELSE CumulativeBefore(pg, k - 1)
       + CeilDiv(Len(DataByLevel(pg, levelOrder[k - 1])),
                 IF pg = "kanji" THEN KANJI_PER_SET ELSE WORDS_PER_SET)

LoadedCumulativeCounts(pg) ==
  [level \in Range(levelOrder) |->
     CumulativeBefore(pg, CHOOSE k \in 1..Len(levelOrder) : levelOrder[k] = level)]

ZeroCounts == [level \in Range(levelOrder) |-> 0]

\* Array.prototype.slice(from, to) for 0 <= from <= to
Slice(s, from, to) == SubSeq(s, Min(from, Len(s)) + 1, Min(to, Len(s)))

CollectionMeta(data, name, prevLength) ==
  [data |-> data, name |-> name, prevLength |-> prevLength]

\* level.toUpperCase() / vocabCollectionNames[level]
UpperName(level) ==
  CASE level = "n5" -> "N5" [] level = "n4" -> "N4" [] level = "n3" -> "N3"
    [] level = "n2" -> "N2" [] OTHER -> "N1"

IsLoaded(level) == level \in DOMAIN collections

\* a plausible slip: some() where every() is meant
KanjiIsSetMasteredSome(setStart, setEnd) ==
  IF ~IsLoaded(selectedCollectionName) THEN FALSE
  ELSE LET kanjiInSet == Slice(collections[selectedCollectionName].data,
                               setStart * KANJI_PER_SET, setEnd * KANJI_PER_SET)
       IN  \E k \in 1..Len(kanjiInSet) : kanjiInSet[k] \in masteredCharacters

\* KanjiCards isSetMastered(setStart, setEnd)
KanjiIsSetMastered(setStart, setEnd) ==
  IF ~IsLoaded(selectedCollectionName) THEN FALSE
  ELSE LET kanjiInSet == Slice(collections[selectedCollectionName].data,
                               setStart * KANJI_PER_SET, setEnd * KANJI_PER_SET)
       IN  \A k \in 1..Len(kanjiInSet) : kanjiInSet[k] \in masteredCharacters

\* VocabCards isSetMastered(setStart, setEnd)
VocabIsSetMastered(setStart, setEnd) ==
  IF ~IsLoaded(selectedCollectionName) THEN FALSE
  ELSE LET wordsInSet == Slice(collections[selectedCollectionName].data,
                               setStart * WORDS_PER_SET, setEnd * WORDS_PER_SET)
       IN  \A k \in 1..Len(wordsInSet) : wordsInSet[k] \in masteredWords

\* the sets memo of KanjiCards (kanjiSetsTemp), set i at index i + 1
kanjiSetsTemp ==
  IF ~IsLoaded(selectedCollectionName) THEN <<>>
  ELSE LET meta == collections[selectedCollectionName]
       IN  [j \in 1..CeilDiv(Len(meta.data), KANJI_PER_SET) |->
              [name |-> meta.prevLength + (j - 1) + 1,
               start |-> j - 1,
               end |-> j,
               isMastered |-> KanjiIsSetMastered(j - 1, j)]]

\* the sets memo of VocabCards (vocabSetsTemp)
vocabSetsTemp ==
  IF ~IsLoaded(selectedCollectionName) THEN <<>>
  ELSE LET meta == collections[selectedCollectionName]
       IN  [j \in 1..CeilDiv(Len(meta.data), WORDS_PER_SET) |->
              [name |-> meta.prevLength + (j - 1) + 1,
               start |-> j - 1,
               end |-> j,
               isMastered |-> VocabIsSetMastered(j - 1, j)]]

setsTemp == IF page = "kanji" THEN kanjiSetsTemp ELSE vocabSetsTemp

Load(level, prevLength, isMounted) ==
  [level |-> level, prevLength |-> prevLength, isMounted |-> isMounted]

\* a plausible slip: the re-run cancels the load in flight and starts no other
RunSelectedEffectNoRestart(loads, level, loaded, counts) ==
  LET cleaned == {Load(l.level, l.prevLength, FALSE) : l \in loads}
  IN  IF level \in loaded \/ loads # {}
      THEN cleaned
      ELSE cleaned \cup {Load(level, counts[level], TRUE)}

\* the effect on [selectedCollectionName, cumulativeCounts, collections]: the
\* cleanup of the run before it, then the run itself
RunSelectedEffect(loads, level, loaded, counts) ==
  LET cleaned == {Load(l.level, l.prevLength, FALSE) : l \in loads}
  IN  IF level \in loaded
      THEN cleaned
      ELSE cleaned \cup {Load(level, counts[level], TRUE)}

\* the first render of the grid: both effects run
CardsMount ==
  /\ page \in {"kanji", "vocab"}
  /\ ~cardsMounted
  /\ cardsMounted' = TRUE
  /\ countsLoading' = TRUE
  /\ pendingLoads' = RunSelectedEffect(pendingLoads, selectedCollectionName,
                                       DOMAIN collections, cumulativeCounts)
  /\ UNCHANGED <<characterMastery, sessionVars, page, selectedCollectionName,
                 collections, cumulativeCounts, selects>>

\* the store's selected collection changes
SelectCollection ==
  /\ cardsMounted
  /\ selects < MaxSelects
  /\ \E level \in Range(levelOrder) \ {selectedCollectionName} :
       /\ selectedCollectionName' = level
       /\ pendingLoads' = RunSelectedEffect(pendingLoads, level, DOMAIN collections,
                                            cumulativeCounts)
  /\ selects' = selects + 1
  /\ UNCHANGED <<characterMastery, sessionVars, page, cardsMounted, collections,
                 cumulativeCounts, countsLoading>>

\* loadCumulativeCounts() ends: if (isMounted) setCumulativeCounts(counts)
CumulativeCountsLoaded ==
  /\ cardsMounted
  /\ countsLoading
  /\ countsLoading' = FALSE
  /\ cumulativeCounts' = LoadedCumulativeCounts(page)
  /\ pendingLoads' = RunSelectedEffect(pendingLoads, selectedCollectionName,
                                       DOMAIN collections,
                                       LoadedCumulativeCounts(page))
  /\ UNCHANGED <<characterMastery, sessionVars, page, cardsMounted,
                 selectedCollectionName, collections, selects>>

\* a loadSelectedCollection() run ends: if (!isMounted) return; setCollections(...)
SelectedCollectionLoaded ==
  /\ cardsMounted
  /\ \E l \in pendingLoads :
       IF l.isMounted
       THEN /\ collections' =
                 [lv \in DOMAIN collections \cup {l.level} |->
                    IF lv = l.level
                    THEN CollectionMeta(DataByLevel(page, l.level),
                                        UpperName(l.level), l.prevLength)
                    ELSE collections[lv]]
            /\ pendingLoads' =
                 RunSelectedEffect(pendingLoads \ {l}, selectedCollectionName,
                                   DOMAIN collections \cup {l.level},
                                   cumulativeCounts)
       ELSE /\ pendingLoads' = pendingLoads \ {l}
            /\ UNCHANGED collections
  /\ UNCHANGED <<characterMastery, sessionVars, page, cardsMounted,
                 selectedCollectionName, cumulativeCounts, countsLoading, selects>>

----------------------------------------------------------------------------
(* The game session *)

\* no card grid is on screen
NoCards ==
  /\ page = "none"
  /\ cardsMounted = FALSE
  /\ selectedCollectionName = "n5"
  /\ collections = EmptyMap
  /\ cumulativeCounts = ZeroCounts
  /\ countsLoading = FALSE
  /\ pendingLoads = {}
  /\ selects = 0

\* no game is on screen
NoGame ==
  /\ score = 0
  /\ characterWeights = EmptyMap
  /\ lastSeen = <<>>
  /\ internalIsReverse = FALSE
  /\ consecutiveCorrectInDirection = 0
  /\ game = "none"
  /\ mounted = FALSE
  /\ externalIsReverse = "undefined"
  /\ kanaGroupIndices = <<>>
  /\ wordLength = 3
  /\ selectedKanjiObjs = <<>>
  /\ externalDistractorCount = 3
  /\ wordData = EmptyWord
  /\ questionData = EmptyQuestion
  /\ placedTiles = <<>>
  /\ isChecking = FALSE
  /\ bottomBarState = "check"
  /\ answers = 0
  /\ owedOnCorrect = <<>>
  /\ lastEvent = Event("init", <<>>)

Init ==
  /\ characterMastery = EmptyMap
  /\ score = 0
  /\ characterWeights = EmptyMap
  /\ lastSeen = <<>>
  /\ internalIsReverse = FALSE
  /\ consecutiveCorrectInDirection = 0
  /\ game \in {"kana", "kanji"}
  /\ mounted = FALSE
  /\ externalIsReverse \in {"undefined", "true", "false"}
  /\ IF game = "kana"
     THEN /\ kanaGroupIndices \in KanaGroupChoices
          /\ wordLength \in WordLengthChoices
          /\ selectedKanjiObjs = <<>>
          /\ externalDistractorCount = 3
     ELSE /\ kanaGroupIndices = <<>>
          /\ wordLength = 3
          /\ selectedKanjiObjs \in KanjiPoolChoices
          /\ externalDistractorCount \in DistractorCountChoices
  /\ wordData = EmptyWord
  /\ questionData = EmptyQuestion
  /\ placedTiles = <<>>
  /\ isChecking = FALSE
  /\ bottomBarState = "check"
  /\ answers = 0
  /\ owedOnCorrect = <<>>
  /\ lastEvent = Event("init", <<>>)
  /\ NoCards

Next ==
  \/ KanjiMount
  \/ KanjiHandleCheck
  \/ KanjiHandleContinue
  \/ KanjiHandleTryAgain
  \/ KanjiHandleTileClick
  \/ KanaMount
  \/ KanaHandleCheck
  \/ KanaHandleContinue
  \/ KanaHandleTryAgain
  \/ KanaHandleTileClick
  \/ KanaHandleClearPlaced

Spec == Init /\ [][Next]_vars

----------------------------------------------------------------------------
(* Question generation, for every pool, word length, direction and selector
   state of a family of inputs: the game is mounted and draws its first question *)

\* the kana groups selected, pools with a repeated romaji among them
KanaGroupInputs == {<<>>, <<1>>, <<2>>, <<1, 2>>, <<1, 3>>}

WordLengthInputs == {1, 2, 3}

\* pools of 0, 1, 2, 3 and 4 kanji
KanjiPoolInputs ==
  LET all == <<KanjiObj("K1", "m1"), KanjiObj("K2", "m2"), KanjiObj("K3", "m3"),
               KanjiObj("K4", "m4")>>
  IN  {SubSeq(all, 1, n) : n \in 0..4}
      \* two kanji with the same first meaning
      \cup {<<KanjiObj("K1", "m1"), KanjiObj("K2", "m1"), KanjiObj("K3", "m3")>>}

\* what the global selector holds from the games played before: nothing, or
\* weights at both bounds
WeightInputs ==
  {EmptyMap,
   [id \in {"hA", "a", "K1"} |-> W_MIN],
   [id \in {"hA", "a", "K1", "hI", "K2"} |->
      IF id \in {"hA", "a", "K1"} THEN W_MAX ELSE W_MIN]}

InitGenerate ==
  /\ characterMastery = EmptyMap
  /\ score = 0
  /\ characterWeights \in WeightInputs
  /\ lastSeen = <<>>
  /\ internalIsReverse = FALSE
  /\ consecutiveCorrectInDirection = 0
  /\ game \in {"kana", "kanji"}
  /\ mounted = FALSE
  /\ externalIsReverse \in {"undefined", "true", "false"}
  /\ IF game = "kana"
     THEN /\ kanaGroupIndices \in KanaGroupInputs
          /\ wordLength \in WordLengthInputs
          /\ selectedKanjiObjs = <<>>
          /\ externalDistractorCount = 3
     ELSE /\ kanaGroupIndices = <<>>
          /\ wordLength = 3
          /\ selectedKanjiObjs \in KanjiPoolInputs
          /\ externalDistractorCount \in DistractorCountChoices
  /\ wordData = EmptyWord
  /\ questionData = EmptyQuestion
  /\ placedTiles = <<>>
  /\ isChecking = FALSE
  /\ bottomBarState = "check"
  /\ answers = 0
  /\ owedOnCorrect = <<>>
  /\ lastEvent = Event("init", <<>>)
  /\ NoCards

NextGenerate ==
  \/ KanjiMount
  \/ KanaMount

SpecGenerate == InitGenerate /\ [][NextGenerate]_vars

----------------------------------------------------------------------------
(* A visit of a card grid, for every ledger of a family of persisted ledgers *)

MasteredStat == Stat(9, 1)

UnmasteredStat == Stat(8, 1)

\* the ids of the first two levels of the grid pg
CardIds(pg) == Range(DataByLevel(pg, "n5")) \cup Range(DataByLevel(pg, "n4"))

\* ledgers in which any of these ids is mastered, and the first id of the grid
\* may also be present without being mastered
CardLedgers(pg) ==
  LET first == DataByLevel(pg, "n5")[1]
  IN  {[id \in m |-> MasteredStat] : m \in SUBSET CardIds(pg)}
      \cup {[id \in m \cup {first} |-> IF id = first THEN UnmasteredStat
                                      ELSE MasteredStat]
            : m \in SUBSET (CardIds(pg) \ {first})}

InitCards ==
  /\ NoGame
  /\ page \in {"kanji", "vocab"}
  /\ characterMastery \in CardLedgers(page)
  /\ cardsMounted = FALSE
  /\ selectedCollectionName \in Range(levelOrder)
  /\ collections = EmptyMap
  /\ cumulativeCounts = ZeroCounts
  /\ countsLoading = FALSE
  /\ pendingLoads = {}
  /\ selects = 0

\* the selected level is an input of the visit and stays as it is
NextCards ==
  \/ CardsMount
  \/ CumulativeCountsLoaded
  \/ SelectedCollectionLoaded

SpecCards == InitCards /\ [][NextCards]_vars

----------------------------------------------------------------------------
(* A visit of a card grid in which the selected level changes: the loads in
   flight, their cancellation by the effect's cleanup, and their completion *)

InitLoads ==
  /\ NoGame
  /\ page \in {"kanji", "vocab"}
  /\ characterMastery = EmptyMap
  /\ cardsMounted = FALSE
  /\ selectedCollectionName \in Range(levelOrder)
  /\ collections = EmptyMap
  /\ cumulativeCounts = ZeroCounts
  /\ countsLoading = FALSE
  /\ pendingLoads = {}
  /\ selects = 0

NextLoads ==
  \/ CardsMount
  \/ SelectCollection
  \/ CumulativeCountsLoaded
  \/ SelectedCollectionLoaded

\* the grid is rendered, and every request of the data services completes
FairLoads ==
  /\ WF_vars(CardsMount)
  /\ WF_vars(CumulativeCountsLoaded)
  /\ WF_vars(SelectedCollectionLoaded)

SpecLoads == InitLoads /\ [][NextLoads]_vars /\ FairLoads

----------------------------------------------------------------------------
(* The mastery memos, for every ledger of two ids within the bounds *)

MasteryIds == {"c01", "w01"}

\* the stats the inputs are drawn from: the grid up to MaxCount and the cases
\* around an accuracy of 0.9 with many attempts
InputStats ==
  {Stat(c, i) : c \in 0..MaxCount, i \in 0..MaxCount}
  \cup {Stat(89, 11), Stat(90, 10), Stat(91, 10)}

InitMastery ==
  /\ NoGame
  /\ NoCards
  /\ \E present \in SUBSET MasteryIds :
       characterMastery \in [present -> InputStats]

\* an outcome report reaches the store between two renders of a grid
ReportOutcome ==
  /\ \E id \in MasteryIds, field \in {"correct", "wrong"} :
       /\ id \in DOMAIN characterMastery =>
            /\ characterMastery[id].correct < MaxCount
            /\ characterMastery[id].incorrect < MaxCount
       /\ characterMastery' = IncrementCharacterScore(characterMastery, id, field)
  /\ UNCHANGED <<sessionVars, cardVars>>

NextMastery == ReportOutcome

SpecMastery == InitMastery /\ [][NextMastery]_vars

----------------------------------------------------------------------------
(* The mastery classifier *)

\* the ledger entry of id, and whether it meets both thresholds
MeetsThresholds(id) ==
  /\ id \in DOMAIN characterMastery
  /\ LET correct == characterMastery[id].correct
         incorrect == characterMastery[id].incorrect
     IN  /\ correct + incorrect >= 10
         /\ 10 * correct >= 9 * (correct + incorrect)

\* C1: for every ledger, an id is in the mastered set iff it has at least 10
\* attempts and at least 90% of them are correct (10 * correct >= 9 * attempts),
\* in the kanji grid's masteredCharacters and in the vocabulary grid's
\* masteredWords alike.
C1_MasteredIffThresholds ==
  /\ masteredCharacters \subseteq DOMAIN characterMastery
  /\ masteredWords \subseteq DOMAIN characterMastery
  /\ \A id \in MasteryIds :
       /\ id \in masteredCharacters <=> MeetsThresholds(id)
       /\ id \in masteredWords <=> MeetsThresholds(id)

\* a ledger with one id exactly on the attempt threshold and mastered, the other
\* with more attempts and too low an accuracy
C1_Witness ==
  /\ DOMAIN characterMastery = MasteryIds
  /\ characterMastery["c01"] = Stat(10, 0)
  /\ characterMastery["w01"] = Stat(9, 2)
  /\ "c01" \in masteredCharacters
  /\ "w01" \notin masteredWords

\* C2: both thresholds are inclusive: 9 correct of exactly 10 attempts is
\* mastered; 8 correct of 9 attempts and 89 correct of 100 attempts are not.
C2_ThresholdsInclusive ==
  \A id \in DOMAIN characterMastery :
    /\ characterMastery[id] = Stat(9, 1) =>
         id \in masteredCharacters /\ id \in masteredWords
    /\ characterMastery[id] = Stat(8, 1) =>
         id \notin masteredCharacters /\ id \notin masteredWords
    /\ characterMastery[id] = Stat(89, 11) =>
         id \notin masteredCharacters /\ id \notin masteredWords

\* a ledger holding the boundary case and the 0.89 case
C2_Witness ==
  /\ DOMAIN characterMastery = MasteryIds
  /\ characterMastery["c01"] = Stat(9, 1)
  /\ characterMastery["w01"] = Stat(89, 11)
  /\ "c01" \in masteredCharacters
  /\ "w01" \notin masteredCharacters

----------------------------------------------------------------------------
(* The sets of a card grid *)

masteredOfPage == IF page = "kanji" THEN masteredCharacters ELSE masteredWords

\* isSetMastered(i, i + 1) of the mounted grid
PageIsSetMastered(i) ==
  IF page = "kanji" THEN KanjiIsSetMastered(i, i + 1) ELSE VocabIsSetMastered(i, i + 1)

\* C3: set i of the selected collection is flagged mastered iff every item at the
\* positions [10 i, 10 i + 10) of the loaded collection is in the mastered set of
\* the current ledger; while the selected collection is not loaded there are no
\* sets and isSetMastered answers false.
C3_SetMasteredIffEveryItem ==
  cardsMounted =>
    IF IsLoaded(selectedCollectionName)
    THEN LET data == collections[selectedCollectionName].data
         IN  /\ Len(setsTemp) = CeilDiv(Len(data), 10)
             /\ \A j \in 1..Len(setsTemp) :
                  /\ setsTemp[j].isMastered = PageIsSetMastered(j - 1)
                  /\ setsTemp[j].isMastered <=>
                       \A k \in 1..Len(data) :
                         (10 * (j - 1) < k /\ k <= 10 * (j - 1) + 10)
                           => data[k] \in masteredOfPage
    ELSE /\ setsTemp = <<>>
         /\ \A i \in 0..2 : ~PageIsSetMastered(i)

\* the kanji grid of N5 loaded, with one item of the first set missing from the
\* ledger and the single item of the second set mastered
C3_Witness ==
  /\ page = "kanji"
  /\ IsLoaded("n5")
  /\ selectedCollectionName = "n5"
  /\ DOMAIN characterMastery = Range(KanjiByLevel("n5")) \ {"c07"}
  /\ Len(setsTemp) = 2
  /\ ~setsTemp[1].isMastered
  /\ setsTemp[2].isMastered

----------------------------------------------------------------------------
(* The game session: what a step and a state are, in the claims' words *)

\* the identifiers of the question on screen
QuestionIds ==
  IF game = "kanji" THEN <<questionData.kanjiChar>> ELSE wordData.wordChars

\* whether Check would evaluate the placed tiles as correct
PlacedIsCorrect ==
  IF game = "kanji"
  THEN KanjiIsCorrect(placedTiles, questionData)
  ELSE KanaIsCorrect(placedTiles, wordData)

\* this step is an evaluated answer (Check with at least one tile placed)
AnswerStep == answers' = answers + 1

CorrectAnswerStep == AnswerStep /\ PlacedIsCorrect

WrongAnswerStep == AnswerStep /\ ~PlacedIsCorrect

HasCall(fn) == \E k \in 1..Len(lastEvent.calls) : lastEvent.calls[k].fn = fn

\* the correct (incorrect) answers of the ledger, over the ids given
RECURSIVE SumField(_, _, _)
SumField(ledger, ids, field) ==
  IF ids = {} THEN 0
  ELSE LET id == CHOOSE x \in ids : TRUE
       IN  (IF field = "correct" THEN ledger[id].correct ELSE ledger[id].incorrect)
           + SumField(ledger, ids \ {id}, field)

TotalCorrect == SumField(characterMastery, DOMAIN characterMastery, "correct")

TotalIncorrect == SumField(characterMastery, DOMAIN characterMastery, "incorrect")

\* the candidate pools the games hand to the selector
GamePools ==
  IF game = "kanji"
  THEN {KanjiChars(selectedKanjiObjs)}
  ELSE {selectedKana, selectedRomaji}

----------------------------------------------------------------------------
(* The direction controller *)

\* C4: with the controller in charge (no fixed direction), every correct answer
\* counts one more consecutive correct answer; when the count reaches FLIP_STREAK
\* the direction flips and the count is 0 again, otherwise the direction stays.
\* Three correct answers from the initial state (Forward, 0) give (Reverse, 0).
C4_CorrectAnswerAdvances ==
  /\ [][(CorrectAnswerStep /\ externalIsReverse = "undefined") =>
          IF consecutiveCorrectInDirection + 1 = FLIP_STREAK
          THEN /\ internalIsReverse' = ~internalIsReverse
               /\ consecutiveCorrectInDirection' = 0
          ELSE /\ internalIsReverse' = internalIsReverse
               /\ consecutiveCorrectInDirection'
                    = consecutiveCorrectInDirection + 1]_vars
  /\ []((/\ externalIsReverse = "undefined"
         /\ answers = 3
         /\ TotalIncorrect = 0
         /\ FLIP_STREAK = 3)
          => (internalIsReverse /\ consecutiveCorrectInDirection = 0))

\* the third correct answer in a row has just flipped the direction to reverse
C4_Witness ==
  /\ externalIsReverse = "undefined"
  /\ answers = 3
  /\ TotalIncorrect = 0
  /\ lastEvent.handler = "check"
  /\ HasCall("decideNextMode")
  /\ internalIsReverse
  /\ consecutiveCorrectInDirection = 0

\* C5: every wrong answer leaves the direction as it is and sets the count of
\* consecutive correct answers to 0; the direction changes only in a correct
\* answer that completes FLIP_STREAK consecutive correct answers.
C5_WrongAnswerResets ==
  /\ [][WrongAnswerStep =>
          /\ internalIsReverse' = internalIsReverse
          /\ consecutiveCorrectInDirection' = 0]_vars
  /\ [][internalIsReverse' # internalIsReverse =>
          /\ CorrectAnswerStep
          /\ externalIsReverse = "undefined"
          /\ consecutiveCorrectInDirection + 1 = FLIP_STREAK]_vars

\* a wrong answer after two correct ones: the streak of 2 is gone, the direction
\* is still forward
C5_Witness ==
  /\ externalIsReverse = "undefined"
  /\ answers = 3
  /\ game = "kanji"
  /\ TotalCorrect = 2
  /\ TotalIncorrect = 1
  /\ lastEvent.handler = "check"
  /\ HasCall("recordWrongAnswer")
  /\ consecutiveCorrectInDirection = 0
  /\ ~internalIsReverse

\* the direction the question on screen was generated in, read off the question:
\* a reverse question asks for the kanji itself, or is made of romaji
QuestionIsReverse ==
  IF game = "kanji"
  THEN questionData.correctAnswer = questionData.kanjiChar
  ELSE Range(wordData.wordChars) \subseteq Range(selectedRomaji)

QuestionOnScreen == IF game = "kanji" THEN KanjiRendered ELSE KanaRendered

\* C6: with a fixed direction supplied, every question is asked in that direction
\* and no answer reaches the controller: neither decideNextMode nor
\* recordWrongAnswer is called, and the streak state stays (Forward, 0).
C6_FixedDirectionBypassesController ==
  externalIsReverse # "undefined" =>
    /\ isReverse = (externalIsReverse = "true")
    /\ QuestionOnScreen => (QuestionIsReverse <=> externalIsReverse = "true")
    /\ ~HasCall("decideNextMode")
    /\ ~HasCall("recordWrongAnswer")
    /\ internalIsReverse = FALSE
    /\ consecutiveCorrectInDirection = 0

\* a fixed reverse session in which FLIP_STREAK correct answers in a row were
\* given, the last one just evaluated
C6_Witness ==
  /\ externalIsReverse = "true"
  /\ answers >= FLIP_STREAK
  /\ TotalIncorrect = 0
  /\ lastEvent.handler = "check"
  /\ bottomBarState = "correct"
  /\ QuestionIsReverse

----------------------------------------------------------------------------
(* The adaptive selector *)

\* C7: in every reachable selector state every weight lies within [W_MIN, W_MAX],
\* the neutral weight that unseen items read as included.
C7_WeightsWithinBounds ==
  /\ W_MIN <= NEUTRAL_WEIGHT /\ NEUTRAL_WEIGHT <= W_MAX
  /\ \A id \in DOMAIN characterWeights :
       /\ characterWeights[id] \in Int
       /\ W_MIN <= characterWeights[id]
       /\ characterWeights[id] <= W_MAX

\* an item answered wrong more often than it takes to reach the cap, held at W_MAX
C7_Witness ==
  \E id \in DOMAIN characterWeights :
    /\ id \in DOMAIN characterMastery
    /\ characterMastery[id].incorrect >= 4
    /\ characterMastery[id].correct = 0
    /\ characterWeights[id] = W_MAX

\* C8: an answer evaluated as wrong raises the weight of each identifier of the
\* question strictly, unless it is W_MAX already, which it then stays; an answer
\* evaluated as correct lowers it strictly, unless it is W_MIN already, which it
\* then stays; the weight of no other identifier changes.
C8_WeightMovesStrictly ==
  [][AnswerStep =>
       \A id \in DOMAIN characterWeights' \cup DOMAIN characterWeights :
         LET before == Weight(characterWeights, id)
             after == Weight(characterWeights', id)
         IN  IF id \in Range(QuestionIds)
             THEN IF PlacedIsCorrect
                  THEN IF before = W_MIN THEN after = W_MIN ELSE after < before
                  ELSE IF before = W_MAX THEN after = W_MAX ELSE after > before
             ELSE after = before]_vars

\* weights moved both ways: one identifier above the neutral weight, another
\* below it, the last answer just evaluated
C8_Witness ==
  /\ lastEvent.handler = "check"
  /\ HasCall("updateCharacterWeight")
  /\ \E up, down \in DOMAIN characterWeights :
       /\ characterWeights[up] > NEUTRAL_WEIGHT
       /\ characterWeights[down] < NEUTRAL_WEIGHT

\* C9: for every non-empty pool and every reachable selector state the selector
\* returns a member of the pool, so the kanji of a generated question is one of
\* the pool (the lookup in kanjiObjMap finds it) and a kana word is made of
\* characters of its source list.
C9_SelectionIsMemberOfPool ==
  /\ \A pool \in GamePools :
       pool # <<>> =>
         /\ SelectWeightedCharacter(characterWeights, pool) # {}
         /\ SelectWeightedCharacter(characterWeights, pool) \subseteq Range(pool)
  /\ (game = "kanji" /\ mounted /\ selectedKanjiObjs # <<>>) =>
       /\ questionData.kanjiChar # ""
       /\ KanjiObjMapHas(selectedKanjiObjs, questionData.kanjiChar)
  /\ (game = "kana" /\ mounted) =>
       Range(wordData.wordChars)
         \subseteq Range(IF QuestionIsReverse THEN selectedRomaji ELSE selectedKana)

\* a kanji question drawn after answers have moved the weights apart
C9_Witness ==
  /\ game = "kanji"
  /\ KanjiRendered
  /\ lastEvent.handler = "continue"
  /\ \E id \in DOMAIN characterWeights : characterWeights[id] # NEUTRAL_WEIGHT
  /\ KanjiObjMapHas(selectedKanjiObjs, questionData.kanjiChar)

\* C10: whatever the outcomes so far, every member of a pool keeps a weight of at
\* least W_MIN > 0 and is a possible result of the next draw from the pool; in
\* the kanji game every kanji of the pool can be the next question.
C10_NoStarvation ==
  /\ W_MIN > 0
  /\ \A pool \in GamePools :
       \A k \in 1..Len(pool) :
         /\ Weight(characterWeights, pool[k]) >= W_MIN
         /\ pool[k] \in SelectWeightedCharacter(characterWeights, pool)
  /\ (game = "kanji" /\ mounted) =>
       \A k \in 1..Len(selectedKanjiObjs) :
         \E r \in GenerateQuestion(selectedKanjiObjs, isReverse, distractorCount,
                                   characterWeights, lastSeen) :
           r.q.kanjiChar = selectedKanjiObjs[k].kanjiChar

\* an item answered correctly more often than it takes to reach the floor
C10_Witness ==
  \E id \in DOMAIN characterWeights :
    /\ id \in DOMAIN characterMastery
    /\ characterMastery[id].correct >= 4
    /\ characterMastery[id].incorrect = 0
    /\ characterWeights[id] = W_MIN

----------------------------------------------------------------------------
(* Question generation *)

\* the list the kana game draws the identifiers of a word from
KanaSourceChars == IF isReverse THEN selectedRomaji ELSE selectedKana

Distinct(s) == \A i, j \in 1..Len(s) : i # j => s[i] # s[j]

\* the draws of the last handler run, batch by batch
AllBatches == {lastEvent.batches[b] : b \in 1..Len(lastEvent.batches)}

\* C12: in every draw batch of the kana generateWord the candidate list of a draw
\* is the source list without the identifiers drawn before it in the batch, and
\* the identifiers drawn (the characters of the word) are pairwise distinct, for
\* every pool, word length, direction and selector result.
C12_DrawsOfABatchAreDistinct ==
  game = "kana" =>
    /\ \A batch \in AllBatches :
         \A k \in 1..Len(batch) :
           /\ batch[k].candidates
                = FilterOut(KanaSourceChars,
                            {batch[j].selected : j \in 1..(k - 1)})
           /\ \A j \in 1..(k - 1) : batch[j].selected # batch[k].selected
    /\ Distinct(wordData.wordChars)

\* a reverse word of two romaji drawn from a, i, a: once "a" is drawn, both of
\* its entries are gone from the candidates
C12_Witness ==
  /\ game = "kana"
  /\ mounted
  /\ externalIsReverse = "true"
  /\ kanaGroupIndices = <<1, 2>>
  /\ wordLength = 2
  /\ wordData.wordChars = <<"a", "i">>
  /\ lastEvent.batches[2][2].candidates = <<"i">>

KanaDistractorTiles ==
  {i \in 1..Len(wordData.allTiles) :
     wordData.allTiles[i] \notin Range(wordData.answerChars)}

\* C18 (kanji): a question from a pool of at least one kanji has exactly
\* 1 + min(requested distractorCount, pool size - 1) tiles.
C18_KanjiTiles ==
  (game = "kanji" /\ mounted /\ Len(selectedKanjiObjs) >= 1) =>
    Len(questionData.allTiles)
      = 1 + Min(externalDistractorCount, Len(selectedKanjiObjs) - 1)

\* C18 (kana distractors): a word has at most min(3, pool size - wordLength)
\* distractor tiles, pairwise distinct and different from every answer tile.
C18_KanaDistractors ==
  (game = "kana" /\ mounted /\ Len(KanaSourceChars) >= wordLength) =>
    /\ Len(wordData.allTiles) - Len(wordData.answerChars)
         <= Min(3, Len(KanaSourceChars) - wordLength)
    /\ Cardinality(KanaDistractorTiles)
         = Len(wordData.allTiles) - Len(wordData.answerChars)
    /\ \A i, j \in KanaDistractorTiles :
         i # j => wordData.allTiles[i] # wordData.allTiles[j]

\* C18: a pool too small for the requested distractors gives fewer tiles, not an
\* error: the kanji question has exactly 1 + min(requested, pool size - 1) tiles,
\* and the kana word has the wordLength answer tiles plus at most
\* min(3, pool size - wordLength) distractors, distinct from each other and from
\* the answer tiles.
C18_SmallPoolGivesFewerTiles ==
  /\ C18_KanjiTiles
  /\ C18_KanaDistractors
  /\ (game = "kana" /\ mounted /\ Len(KanaSourceChars) >= wordLength) =>
       Len(wordData.answerChars) = wordLength

----------------------------------------------------------------------------
(* Outcome reports *)

\* the calls of fn for id among calls
CallsFor(calls, fn, id) ==
  {k \in 1..Len(calls) : calls[k].fn = fn /\ calls[k].id = id}

\* the calls of fn among calls
CallsOf(calls, fn) == {k \in 1..Len(calls) : calls[k].fn = fn}

\* the attempts the ledger holds for id
Attempts(ledger, id) ==
  IF id \in DOMAIN ledger THEN ledger[id].correct + ledger[id].incorrect ELSE 0

\* the ids a step can touch
KnownIds ==
  DOMAIN characterMastery \cup DOMAIN characterWeights \cup Range(QuestionIds)

\* C14: an evaluated answer calls, for each identifier of the question, exactly
\* once incrementCharacterScore and exactly once updateCharacterWeight, both with
\* the outcome of the answer, and for no other identifier; with no fixed
\* direction it calls the controller exactly once, decideNextMode on a correct and
\* recordWrongAnswer on a wrong answer, and with a fixed direction not at all. In
\* every step the attempts of an identifier in the ledger grow by the number of
\* weight updates made for it, and a step that is no evaluated answer makes
\* neither call: so the weight updates of an identifier in a session number its
\* correct + incorrect count of the session.
C14_EveryAnswerReportsOnce ==
  /\ [][AnswerStep =>
          LET calls == lastEvent'.calls
              outcome == IF PlacedIsCorrect THEN "correct" ELSE "wrong"
              flag == IF PlacedIsCorrect THEN "true" ELSE "false"
              controller == IF PlacedIsCorrect THEN "decideNextMode"
                            ELSE "recordWrongAnswer"
              other == IF PlacedIsCorrect THEN "recordWrongAnswer"
                       ELSE "decideNextMode"
          IN  /\ \A id \in KnownIds :
                   LET n == IF id \in Range(QuestionIds) THEN 1 ELSE 0
                   IN  /\ Cardinality(CallsFor(calls, "incrementCharacterScore", id)) = n
                       /\ Cardinality(CallsFor(calls, "updateCharacterWeight", id)) = n
                       /\ \A k \in CallsFor(calls, "incrementCharacterScore", id) :
                            calls[k].arg = outcome
                       /\ \A k \in CallsFor(calls, "updateCharacterWeight", id) :
                            calls[k].arg = flag
              /\ \A k \in CallsOf(calls, "incrementCharacterScore")
                          \cup CallsOf(calls, "updateCharacterWeight") :
                   calls[k].id \in Range(QuestionIds)
              /\ Cardinality(CallsOf(calls, controller))
                   = IF externalIsReverse = "undefined" THEN 1 ELSE 0
              /\ CallsOf(calls, other) = {}]_vars
  /\ [][\A id \in KnownIds \cup DOMAIN characterMastery' :
          Attempts(characterMastery', id) - Attempts(characterMastery, id)
            = IF AnswerStep
              THEN Cardinality(CallsFor(lastEvent'.calls, "updateCharacterWeight", id))
              ELSE 0]_vars
  /\ [][(~AnswerStep /\ lastEvent' # lastEvent) =>
          /\ CallsOf(lastEvent'.calls, "incrementCharacterScore") = {}
          /\ CallsOf(lastEvent'.calls, "updateCharacterWeight") = {}
          /\ CallsOf(lastEvent'.calls, "decideNextMode") = {}
          /\ CallsOf(lastEvent'.calls, "recordWrongAnswer") = {}]_vars

\* a kana word of two characters just evaluated as wrong, with the controller in
\* charge: two ledger reports, two weight updates, one recordWrongAnswer
C14_Witness ==
  /\ game = "kana"
  /\ externalIsReverse = "undefined"
  /\ lastEvent.handler = "check"
  /\ bottomBarState = "wrong"
  /\ Len(wordData.wordChars) = 2
  /\ Cardinality(CallsOf(lastEvent.calls, "incrementCharacterScore")) = 2
  /\ Cardinality(CallsOf(lastEvent.calls, "updateCharacterWeight")) = 2
  /\ Cardinality(CallsOf(lastEvent.calls, "recordWrongAnswer")) = 1

\* the identifiers drawn by the last handler run
DrawnIds ==
  UNION {{batch[k].selected : k \in 1..Len(batch)} : batch \in AllBatches}

\* C15: the markCharacterSeen calls of a question generation, however many for
\* the same id, change neither a counter of the ledger nor a weight: a step that
\* is no evaluated answer leaves the ledger and the weights as they are, and in
\* every step the recency list changes only in that the identifiers drawn are
\* moved to its end.
C15_SeenChangesOnlyRecency ==
  /\ [][~AnswerStep =>
          /\ characterMastery' = characterMastery
          /\ characterWeights' = characterWeights]_vars
  /\ [][lastEvent' # lastEvent =>
          LET ids == UNION {{lastEvent'.batches[b][k].selected
                             : k \in 1..Len(lastEvent'.batches[b])}
                            : b \in 1..Len(lastEvent'.batches)}
          IN  /\ FilterOut(lastSeen', ids) = FilterOut(lastSeen, ids)
              /\ Range(lastSeen') = Range(lastSeen) \cup ids
              /\ Distinct(lastSeen')]_vars

\* a game just mounted whose two generations drew the same kanji: it was marked
\* seen twice with no outcome reported, and is in the recency list once
C15_Witness ==
  /\ game = "kanji"
  /\ lastEvent.handler = "mount"
  /\ Len(lastEvent.batches) = 2
  /\ Len(lastEvent.batches[1]) = 1
  /\ Len(lastEvent.batches[2]) = 1
  /\ lastEvent.batches[1][1].selected = lastEvent.batches[2][1].selected
  /\ lastSeen = <<questionData.kanjiChar>>
  /\ Len(selectedKanjiObjs) = 2
  /\ characterMastery = EmptyMap
  /\ characterWeights = EmptyMap

\* C16: the counters of the ledger are natural numbers; no step removes an entry
\* or lowers a counter; the ledger changes only in an evaluated answer, which
\* raises by one the correct counter (answer correct) or the incorrect counter
\* (answer wrong) of each identifier of the question and no other counter.
C16_CountersOnlyGrowOnOutcome ==
  /\ [](\A id \in DOMAIN characterMastery :
          /\ characterMastery[id].correct \in Nat
          /\ characterMastery[id].incorrect \in Nat)
  /\ [][\A id \in DOMAIN characterMastery :
          /\ id \in DOMAIN characterMastery'
          /\ characterMastery'[id].correct >= characterMastery[id].correct
          /\ characterMastery'[id].incorrect >= characterMastery[id].incorrect]_vars
  /\ [][characterMastery' # characterMastery => AnswerStep]_vars
  /\ [][AnswerStep =>
          /\ Range(QuestionIds) \subseteq DOMAIN characterMastery'
          /\ \A id \in DOMAIN characterMastery' :
               LET old == IF id \in DOMAIN characterMastery
                          THEN characterMastery[id] ELSE Stat(0, 0)
                   dc == characterMastery'[id].correct - old.correct
                   di == characterMastery'[id].incorrect - old.incorrect
               IN  IF id \in Range(QuestionIds)
                   THEN IF PlacedIsCorrect THEN dc = 1 /\ di = 0
                        ELSE dc = 0 /\ di = 1
                   ELSE dc = 0 /\ di = 0]_vars

\* after Continue: an identifier with answers of both kinds on the ledger, the
\* next question just generated
C16_Witness ==
  /\ lastEvent.handler = "continue"
  /\ \E id \in DOMAIN characterMastery :
       /\ characterMastery[id].correct >= 1
       /\ characterMastery[id].incorrect >= 1

\* C17: an identifier absent from the ledger or with no attempt is in neither
\* mastered set; the accuracy of an entry with no attempt is 0, no accuracy has a
\* zero denominator, and the mastered sets are sets of ledger keys for every
\* ledger.
C17_NoAttemptsNeverMastered ==
  /\ \A id \in MasteryIds :
       (id \notin DOMAIN characterMastery \/ Attempts(characterMastery, id) = 0) =>
         /\ id \notin masteredCharacters
         /\ id \notin masteredWords
  /\ \A id \in DOMAIN characterMastery :
       /\ Accuracy(characterMastery[id])[2] # 0
       /\ Attempts(characterMastery, id) = 0 =>
            Accuracy(characterMastery[id])[1] = 0
  /\ masteredCharacters \subseteq DOMAIN characterMastery
  /\ masteredWords \subseteq DOMAIN characterMastery

\* a ledger with an entry of no attempts beside a mastered entry
C17_Witness ==
  /\ DOMAIN characterMastery = MasteryIds
  /\ characterMastery["c01"] = Stat(0, 0)
  /\ "w01" \in masteredWords
  /\ "c01" \notin masteredCharacters

----------------------------------------------------------------------------
(* The answer time *)

\* what handleCheck calls for the placed tiles when the stopwatch shows t
CheckCallsAt(t) ==
  IF game = "kanji"
  THEN KanjiCheckCalls(questionData.kanjiChar, PlacedIsCorrect, externalIsReverse, t)
  ELSE KanaCheckCalls(wordData.wordChars, PlacedIsCorrect, externalIsReverse, t)

TimeRecorders == {"addCorrectAnswerTime", "recordAnswerTime"}

\* C19: whatever time the answer took, an evaluated answer leaves the same
\* ledger, weights, mastered sets, direction and streak: the state after the step
\* is the one the same answer gives with any other answer time. The time is an
\* argument of addCorrectAnswerTime and recordAnswerTime only.
C19_AnswerTimeHasNoInfluence ==
  /\ [][AnswerStep =>
          \A t \in AnswerTimes :
            LET after == ApplyCalls(Collab(characterMastery, characterWeights,
                                           streakState), CheckCallsAt(t))
            IN  /\ characterMastery' = after.ledger
                /\ characterWeights' = after.weights
                /\ internalIsReverse' = after.st.isReverse
                /\ consecutiveCorrectInDirection' = after.st.streak
                /\ MasteredCharactersOf(characterMastery')
                     = MasteredCharactersOf(after.ledger)
                /\ MasteredWordsOf(characterMastery')
                     = MasteredWordsOf(after.ledger)]_vars
  /\ [](\A k \in 1..Len(lastEvent.calls) :
          lastEvent.calls[k].fn \notin TimeRecorders =>
            IF lastEvent.calls[k].fn = "onCorrect"
            THEN lastEvent.calls[k].arg \in Seq(STRING)
            ELSE lastEvent.calls[k].arg \in {"", "correct", "wrong", "true", "false"})

\* a slow correct answer just evaluated: its time went to recordAnswerTime, and
\* the weight of the kanji decayed as for any correct answer
C19_Witness ==
  /\ game = "kanji"
  /\ lastEvent.handler = "check"
  /\ bottomBarState = "correct"
  /\ \E k \in CallsOf(lastEvent.calls, "recordAnswerTime") :
       lastEvent.calls[k].arg = 12000
  /\ answers = 1
  /\ Weight(characterWeights, questionData.kanjiChar) < NEUTRAL_WEIGHT

----------------------------------------------------------------------------
(* Check and Continue *)

\* C20: an answer evaluated as correct leaves the game in the state 'correct'
\* with the question it answered, and the game leaves that state or changes the
\* question only in Continue.
C20_CorrectStaysUntilContinue ==
  /\ [][CorrectAnswerStep =>
          /\ bottomBarState' = "correct"
          /\ questionData' = questionData
          /\ wordData' = wordData]_vars
  /\ [][(/\ bottomBarState = "correct"
         /\ \/ bottomBarState' # "correct"
            \/ questionData' # questionData
            \/ wordData' # wordData)
          => lastEvent'.handler = "continue"]_vars

----------------------------------------------------------------------------
(* The external callbacks *)

\* C21: every answer evaluated as wrong invokes onWrong exactly once and no
\* other step invokes it; every answer evaluated as correct is followed by one
\* invocation of onCorrect that carries the identifiers of the question
\* answered, before the next answer is evaluated.
C21_CallbacksMatchAnswers ==
  /\ [][WrongAnswerStep =>
          Cardinality(CallsOf(lastEvent'.calls, "onWrong")) = 1]_vars
  /\ [][(lastEvent' # lastEvent /\ ~WrongAnswerStep) =>
          CallsOf(lastEvent'.calls, "onWrong") = {}]_vars
  /\ [][(lastEvent' # lastEvent /\ CallsOf(lastEvent'.calls, "onCorrect") # {}) =>
          /\ Cardinality(CallsOf(lastEvent'.calls, "onCorrect")) = 1
          /\ owedOnCorrect # <<>>
          /\ \A k \in CallsOf(lastEvent'.calls, "onCorrect") :
               lastEvent'.calls[k].arg = owedOnCorrect]_vars
  /\ [][AnswerStep => owedOnCorrect = <<>>]_vars

----------------------------------------------------------------------------
(* What a wrong answer, Try Again and the tiles leave alone *)

\* the steps of handleTryAgain, handleTileClick and handleClearPlaced
RetryStep == lastEvent'.handler \in {"tryAgain", "tile", "clear"}

\* C22: an answer evaluated as wrong, Try Again and the tile clicks leave the
\* question (identifiers, expected answer, tile list) and the direction as they
\* are; Try Again changes nothing but the placed tiles, which it clears, and the
\* bottom bar, which it returns to 'check'.
C22_WrongAndRetryKeepQuestion ==
  /\ [][(WrongAnswerStep \/ RetryStep) =>
          /\ questionData' = questionData
          /\ wordData' = wordData
          /\ isReverse' = isReverse]_vars
  /\ [][lastEvent'.handler = "tryAgain" =>
          /\ bottomBarState = "wrong"
          /\ placedTiles' = <<>>
          /\ bottomBarState' = "check"
          /\ isChecking' = FALSE
          /\ UNCHANGED <<cardVars, storeVars, selectorVars, directionVars, propVars,
                         mounted, wordData, questionData, answers,
                         owedOnCorrect>>]_vars

\* Try Again pressed after a wrong answer to a question that had an alternative
C22_Witness ==
  /\ lastEvent.handler = "tryAgain"
  /\ answers >= 1
  /\ placedTiles = <<>>
  /\ bottomBarState = "check"
  /\ QuestionOnScreen
  /\ \/ game = "kanji" /\ Len(selectedKanjiObjs) >= 2
     \/ game = "kana" /\ Len(wordData.allTiles) >= 2

----------------------------------------------------------------------------
(* How Check classifies an answer *)

\* the answer the question on screen expects, as a list of tile texts
ExpectedAnswer ==
  IF game = "kanji" THEN <<questionData.correctAnswer>> ELSE wordData.answerChars

\* the last handler reported a correct outcome and did not invoke onWrong
EvaluatedCorrect ==
  /\ \E k \in CallsOf(lastEvent.calls, "incrementCharacterScore") :
       lastEvent.calls[k].arg = "correct"
  /\ CallsOf(lastEvent.calls, "onWrong") = {}

\* the last handler reported a wrong outcome and invoked onWrong
EvaluatedWrong ==
  /\ \E k \in CallsOf(lastEvent.calls, "incrementCharacterScore") :
       lastEvent.calls[k].arg = "wrong"
  /\ CallsOf(lastEvent.calls, "onWrong") # {}

\* C23: Check evaluates an answer as correct exactly when the placed tiles are
\* the expected answer (kana: the same length and the same tile at every
\* position; kanji: one tile, the correct answer); every other non-empty
\* placement is evaluated as wrong.
C23_CorrectIffPlacedIsExpected ==
  /\ [][AnswerStep =>
          /\ placedTiles # <<>>
          /\ EvaluatedCorrect' <=> (placedTiles = ExpectedAnswer)
          /\ EvaluatedWrong' <=> (placedTiles # ExpectedAnswer)]_vars
  /\ [][(lastEvent'.handler = "check" /\ placedTiles # <<>>) => AnswerStep]_vars

\* a kana answer evaluated as wrong although every placed tile is the expected
\* one at its position: a tile is missing
C23_Witness ==
  /\ game = "kana"
  /\ lastEvent.handler = "check"
  /\ bottomBarState = "wrong"
  /\ EvaluatedWrong
  /\ Len(placedTiles) = 1
  /\ Len(wordData.answerChars) = 2
  /\ placedTiles[1] = wordData.answerChars[1]

----------------------------------------------------------------------------
(* The two loaders of a card grid *)

\* the position of a level in levelOrder
LevelIndex(level) == CHOOSE k \in 1..Len(levelOrder) : levelOrder[k] = level

----------------------------------------------------------------------------
(* Check with nothing placed *)

\* C25: Check pressed while no tile is placed does nothing: the ledger, the
\* selector weights, the score, the streak and the direction, the bottom bar,
\* isChecking and the question stay as they are, and no collaborator is called.
C25_CheckOfNothingIsNoOp ==
  [][(lastEvent'.handler = "check" /\ placedTiles = <<>>) =>
       /\ lastEvent'.calls = <<>>
       /\ lastEvent'.batches = <<>>
       /\ UNCHANGED <<cardVars, storeVars, selectorVars, directionVars, propVars,
                      gameVars, answers, owedOnCorrect>>]_vars

\* Check pressed with nothing placed in a session that has a history: an answer
\* was evaluated before and the ledger is not empty
C25_Witness ==
  /\ lastEvent.handler = "check"
  /\ lastEvent.calls = <<>>
  /\ placedTiles = <<>>
  /\ QuestionOnScreen
  /\ answers >= 1
  /\ DOMAIN characterMastery # {}

----------------------------------------------------------------------------
(* The selected collection gets loaded *)

\* C26: once the selected level has stopped changing, and as every request
\* completes, the selected collection ends up loaded and stays so, in every
\* interleaving in which re-runs of the effect cancel the loads in flight; a
\* load that was cleaned up never writes into the collections, which change
\* only when the load of the selected level completes and then gain that level.
C26_SelectedCollectionGetsLoaded ==
  /\ <>[](cardsMounted /\ IsLoaded(selectedCollectionName))
  /\ [][collections' # collections =>
          \E l \in pendingLoads :
            /\ l.isMounted
            /\ l.level = selectedCollectionName
            /\ l.level \notin DOMAIN collections
            /\ DOMAIN collections' = DOMAIN collections \cup {l.level}
            /\ \A lv \in DOMAIN collections : collections'[lv] = collections[lv]]_vars

\* the level selected at mount was left while its load was in flight: that load
\* was cancelled and wrote nothing, and the level selected since is loaded
C26_Witness ==
  /\ cardsMounted
  /\ selects = 1
  /\ pendingLoads = {}
  /\ ~countsLoading
  /\ DOMAIN collections = {selectedCollectionName}

----------------------------------------------------------------------------
(* Solvable questions *)

\* the placements handleTileClick can produce from the placements reached
RECURSIVE PlacementsFrom(_, _)
PlacementsFrom(reached, tiles) ==
  LET next == reached \cup {ToggleTile(p, tiles[k]) :
                              p \in reached, k \in 1..Len(tiles)}
  IN  IF next = reached THEN reached ELSE PlacementsFrom(next, tiles)

\* the tiles of the question on screen
TilesOnScreen ==
  IF game = "kanji" THEN questionData.allTiles ELSE wordData.allTiles

\* every placement a sequence of tile clicks leads to, from no tile placed
Placements == PlacementsFrom({<<>>}, TilesOnScreen)

\* what handleCheck would say of a placement
WouldBeCorrect(placed) ==
  IF game = "kanji"
  THEN KanjiIsCorrect(placed, questionData)
  ELSE KanaIsCorrect(placed, wordData)

\* C27: every question presented can be answered correctly: some sequence of
\* tile clicks leads to a placement that Check evaluates as correct, although a
\* placement never holds the same tile text twice; this includes the words in
\* which two characters have the same answer string.
C27_EveryQuestionIsSolvable ==
  QuestionOnScreen =>
    /\ \A p \in Placements : Distinct(p)
    /\ \E p \in Placements : WouldBeCorrect(p)

----------------------------------------------------------------------------
(* The tiles of a kanji question *)

\* the positions of the tile list that show the correct answer
AnswerTilePositions ==
  {k \in 1..Len(questionData.allTiles) :
     questionData.allTiles[k] = questionData.correctAnswer}

\* C28: in every question of the kanji game, for a pool of kanji objects with
\* pairwise distinct kanjiChar and in both directions, the tile list holds the
\* correct answer, and no distractor tile equals it: the correct answer is the
\* text of exactly one tile.
C28_OneTileIsTheAnswer ==
  (/\ game = "kanji"
   /\ QuestionOnScreen
   /\ Distinct(KanjiChars(selectedKanjiObjs)))
    => Cardinality(AnswerTilePositions) = 1

----------------------------------------------------------------------------
(* Item identifiers and the direction *)

\* the identifiers the game draws from in a direction
CandidateIds(rev) ==
  IF game = "kanji"
  THEN Range(KanjiChars(selectedKanjiObjs))
  ELSE Range(IF rev THEN selectedRomaji ELSE selectedKana)

\* the identifiers the last handler passed to the selector as candidates
OfferedIds ==
  UNION {UNION {Range(batch[k].candidates) : k \in 1..Len(batch)}
         : batch \in AllBatches}

\* the identifiers the last handler reported an outcome for
ReportedIds ==
  {lastEvent.calls[k].id :
     k \in CallsOf(lastEvent.calls, "incrementCharacterScore")
           \cup CallsOf(lastEvent.calls, "updateCharacterWeight")}

\* C29: the identifiers offered to the selector as candidates and those reported
\* to the ledger and to the selector are the same whatever the direction of the
\* question: every one of them is an identifier of the pool in forward and in
\* reverse mode alike, so a pool has one set of ledger keys, in both games.
C29_IdentifiersIgnoreDirection ==
  OfferedIds \cup ReportedIds \cup DOMAIN characterMastery
             \cup DOMAIN characterWeights
    \subseteq (CandidateIds(TRUE) \cap CandidateIds(FALSE))

----------------------------------------------------------------------------
(* The session score *)

\* C30: the score of a session is never negative: an answer evaluated as
\* correct adds the number of characters of the question (1 in the kanji game),
\* and an answer evaluated as wrong subtracts 1 when the result is not negative
\* and leaves the score as it is otherwise.
C30_ScoreNeverNegative ==
  /\ [](score >= 0)
  /\ [][CorrectAnswerStep =>
          /\ score' = score + Len(QuestionIds)
          /\ game = "kanji" => score' = score + 1]_vars
  /\ [][WrongAnswerStep =>
          score' = IF score >= 1 THEN score - 1 ELSE score]_vars

\* a wrong answer given at score 0, after the score had been raised and then
\* brought back to 0 by wrong answers: the score stays 0
C30_Witness ==
  /\ lastEvent.handler = "check"
  /\ EvaluatedWrong
  /\ score = 0
  /\ answers >= 3
  /\ TotalCorrect >= 1

============================================================================
